---- MODULE Spec2Model ----
(***************************************************************************)
(* First-Fit-Decreasing bin packing, src/src/bin-packing.c.                *)
(*                                                                         *)
(* The model follows one run of main after the arguments were read:        *)
(*   sort_numbers_array -> print_numbers -> fill_bins -> print_list_bins.  *)
(* fill_bins is modelled at the granularity of its loops: one step per     *)
(* iteration header, one step per insert_number_bin probe of the inner     *)
(* loop, one step for the "create a new bin" branch.                       *)
(*                                                                         *)
(* C arrays are 0-based; sequences here are 1-based, so values[i] of the   *)
(* code is values[i + 1] here.  The loop counters i and j keep the values  *)
(* they have in the code.                                                  *)
(***************************************************************************)
EXTENDS Integers, Sequences, FiniteSets, Bags, TLC

VARIABLES
    NUMBERS_QUANTITY,  \* global: how many numbers are packed
    BIN_SIZE,          \* global: capacity of a bin
    input,             \* the numbers as supplied / generated (main, before the sort)
    values,            \* the memory block behind `values`, as unsigned shorts
    bins,              \* bin_list: sequence of bins; bins->count is Len(bins)
    i,                 \* fill_bins: index of the number being packed
    j,                 \* fill_bins: index of the bin being probed
    num,               \* fill_bins: the number being packed
    hasInserted,       \* fill_bins: 0 inserted, 1 not inserted yet
    refused,           \* insert_bin_list took its "return 1" branch
    total,             \* print_numbers: unsigned short accumulator
    average,           \* print_numbers: the printed average
    divByZero,         \* print_numbers divided by NUMBERS_QUANTITY = 0
    printed,           \* print_list_bins: what was rendered
    pc                 \* position in main / fill_bins

vars == <<NUMBERS_QUANTITY, BIN_SIZE, input, values, bins, i, j, num,
          hasInserted, refused, total, average, divByZero, printed, pc>>

----------------------------------------------------------------------------
(* Bounds of the model *)

MaxN == 3

MaxVal == 4

MaxBinSize == 3

(* unsigned short int is 16 bits wide *)
USHRT == 65536

SHRT_SIGN == 32768

Vals == 0..MaxVal

(* Contents of the part of the malloc'ed block that was never written. *)
Garbage == {0, MaxVal}

----------------------------------------------------------------------------
(* Helpers on sequences *)

RECURSIVE SumSeq(_)
SumSeq(s) == IF s = <<>> THEN 0 ELSE Head(s) + SumSeq(Tail(s))

RECURSIVE BagOfSeq(_)
BagOfSeq(s) == IF s = <<>> THEN EmptyBag ELSE SetToBag({Head(s)}) (+) BagOfSeq(Tail(s))

RECURSIVE BagOfBins(_)
BagOfBins(bs) == IF bs = <<>> THEN EmptyBag ELSE BagOfSeq(Head(bs).itens) (+) BagOfBins(Tail(bs))

IsNonIncreasing(s) == \A k \in 1..(Len(s) - 1) : s[k] >= s[k + 1]

Prefix(s, n) == [k \in 1..n |-> s[k]]

----------------------------------------------------------------------------
(* sort_numbers_array: qsort(values, NUMBERS_QUANTITY, sizeof(int), cmp).  *)
(* qsort sees NUMBERS_QUANTITY elements of 4 bytes each, that is, pairs of *)
(* adjacent unsigned shorts read as one little-endian int.  An int is kept *)
(* here as the record of its two 16-bit halves.                            *)

IntAt(mem, k) == [lo |-> mem[2 * k - 1], hi |-> mem[2 * k]]

IntsOf(mem, n) == [k \in 1..n |-> IntAt(mem, k)]

ShortsOf(ints) ==
    [k \in 1..(2 * Len(ints)) |->
        IF k % 2 = 1 THEN ints[(k + 1) \div 2].lo ELSE ints[k \div 2].hi]

(* *(int* )b - *(int* )a in 32-bit two's complement, by halves *)
comparison_numbers(a, b) ==
    LET lo     == (b.lo - a.lo) % USHRT
        borrow == IF b.lo < a.lo THEN 1 ELSE 0
        hi     == (b.hi - a.hi - borrow) % USHRT
    IN  [lo |-> lo, hi |-> hi]

IsNegative(d) == d.hi >= SHRT_SIGN

RECURSIVE InsertInOrder(_, _)
InsertInOrder(x, s) ==
    IF s = <<>> THEN <<x>>
    ELSE IF IsNegative(comparison_numbers(x, Head(s)))
         THEN <<x>> \o s
         ELSE <<Head(s)>> \o InsertInOrder(x, Tail(s))

RECURSIVE qsort(_)
qsort(s) == IF s = <<>> THEN <<>> ELSE InsertInOrder(Head(s), qsort(Tail(s)))

sort_numbers_array(mem, n) == ShortsOf(qsort(IntsOf(mem, n)))

----------------------------------------------------------------------------
(* Bin and bin list *)

create_empty_bin == [itens |-> <<>>, left |-> BIN_SIZE, count |-> 0]

create_empty_bin_list == <<>>

(* insert_number_bin with the test made against the bin's capacity *)
insert_number_bin_CapacityTest(b, n) ==
    IF n <= BIN_SIZE
    THEN [bin |-> [itens |-> Append(b.itens, n),
                   left  |-> (b.left - n) % USHRT,
                   count |-> (b.count + 1) % USHRT],
          ret |-> 0]
    ELSE [bin |-> b, ret |-> 1]

(* insert_number_bin that forgets b->left -= num *)
insert_number_bin_NoDecrement(b, n) ==
    IF n <= b.left
    THEN [bin |-> [itens |-> Append(b.itens, n),
                   left  |-> b.left,
                   count |-> (b.count + 1) % USHRT],
          ret |-> 0]
    ELSE [bin |-> b, ret |-> 1]

(* insert_number_bin without the admission test *)
insert_number_bin_Unchecked(b, n) ==
    [bin |-> [itens |-> Append(b.itens, n),
              left  |-> (b.left - n) % USHRT,
              count |-> (b.count + 1) % USHRT],
     ret |-> 0]

(* insert_number_bin with num < b->left *)
insert_number_bin_Strict(b, n) ==
    IF n < b.left
    THEN [bin |-> [itens |-> Append(b.itens, n),
                   left  |-> (b.left - n) % USHRT,
                   count |-> (b.count + 1) % USHRT],
          ret |-> 0]
    ELSE [bin |-> b, ret |-> 1]

(* insert_number_bin with b->left += num *)
insert_number_bin_Increase(b, n) ==
    IF n <= b.left
    THEN [bin |-> [itens |-> Append(b.itens, n),
                   left  |-> (b.left + n) % USHRT,
                   count |-> (b.count + 1) % USHRT],
          ret |-> 0]
    ELSE [bin |-> b, ret |-> 1]

(* returns the bin after the call and the return code *)
insert_number_bin(b, n) ==
    IF n <= b.left
    THEN [bin |-> [itens |-> Append(b.itens, n),
                   left  |-> (b.left - n) % USHRT,
                   count |-> (b.count + 1) % USHRT],
          ret |-> 0]
    ELSE [bin |-> b, ret |-> 1]

(* insert_bin_list that puts the new bin in front of the others *)
insert_bin_list_AtFront(list, b) ==
    IF Len(list) > NUMBERS_QUANTITY
    THEN [list |-> list, ret |-> 1]
    ELSE [list |-> <<b>> \o list, ret |-> 0]

(* returns the list after the call and the return code *)
insert_bin_list(list, b) ==
    IF Len(list) > NUMBERS_QUANTITY
    THEN [list |-> list, ret |-> 1]
    ELSE [list |-> Append(list, b), ret |-> 0]

----------------------------------------------------------------------------
(* main, up to the call of sort_numbers_array: the globals are set and the *)
(* block behind `values` holds the NUMBERS_QUANTITY numbers followed by    *)
(* the never-written rest of the sizeof(int)*NUMBERS_QUANTITY bytes.       *)

Init ==
    /\ NUMBERS_QUANTITY \in 0..MaxN
    /\ BIN_SIZE \in 1..MaxBinSize
    /\ input \in [1..NUMBERS_QUANTITY -> Vals]
    /\ \E rest \in [1..NUMBERS_QUANTITY -> Garbage] : values = input \o rest
    /\ bins = create_empty_bin_list
    /\ i = 0
    /\ j = 0
    /\ num = 0
    /\ hasInserted = 1
    /\ refused = FALSE
    /\ total = 0
    /\ average = 0
    /\ divByZero = FALSE
    /\ printed = <<>>
    /\ pc = "sort"

Sort ==
    /\ pc = "sort"
    /\ values' = sort_numbers_array(values, NUMBERS_QUANTITY)
    /\ pc' = "print_numbers"
    /\ UNCHANGED <<NUMBERS_QUANTITY, BIN_SIZE, input, bins, i, j, num,
                   hasInserted, refused, total, average, divByZero, printed>>

(* the array fill_bins and print_numbers read: values[0..NUMBERS_QUANTITY-1] *)
Packed == Prefix(values, NUMBERS_QUANTITY)

(* print_numbers: total is an unsigned short; total / NUMBERS_QUANTITY.    *)
(* Division by zero is undefined: the process is killed (SIGFPE) or the    *)
(* divide instruction yields 0 and the run goes on.                        *)
PrintNumbers ==
    /\ pc = "print_numbers"
    /\ total' = SumSeq(Packed) % USHRT
    /\ IF NUMBERS_QUANTITY = 0
       THEN /\ divByZero' = TRUE
            /\ average' = 0
            /\ pc' \in {"crashed", "fill_loop"}
       ELSE /\ divByZero' = FALSE
            /\ average' = (SumSeq(Packed) % USHRT) \div NUMBERS_QUANTITY
            /\ pc' = "fill_loop"
    /\ UNCHANGED <<NUMBERS_QUANTITY, BIN_SIZE, input, values, bins, i, j, num,
                   hasInserted, refused, printed>>

(* FillLoop with i <= NUMBERS_QUANTITY as the loop test *)
FillLoop_OneMore ==
    /\ pc = "fill_loop"
    /\ IF i <= NUMBERS_QUANTITY
       THEN /\ num' = IF i + 1 <= Len(values) THEN values[i + 1] ELSE 0
            /\ j' = 0
            /\ pc' = "fill_scan"
       ELSE /\ pc' = "print_bins"
            /\ UNCHANGED <<num, j>>
    /\ UNCHANGED <<NUMBERS_QUANTITY, BIN_SIZE, input, values, bins, i,
                   hasInserted, refused, total, average, divByZero, printed>>

(* fill_bins, outer loop header: for (i = 0; i < NUMBERS_QUANTITY; i++)    *)
(* with num = values[i] and the inner loop's j = 0.                        *)
FillLoop ==
    /\ pc = "fill_loop"
    /\ IF i < NUMBERS_QUANTITY
       THEN /\ num' = values[i + 1]
            /\ j' = 0
            /\ pc' = "fill_scan"
       ELSE /\ pc' = "print_bins"
            /\ UNCHANGED <<num, j>>
    /\ UNCHANGED <<NUMBERS_QUANTITY, BIN_SIZE, input, values, bins, i,
                   hasInserted, refused, total, average, divByZero, printed>>

(* FillScan probing the bins from the newest to the oldest *)
FillScan_NewestFirst ==
    /\ pc = "fill_scan"
    /\ IF j < Len(bins)
       THEN LET r == insert_number_bin(bins[Len(bins) - j], num)
            IN  /\ bins' = [bins EXCEPT ![Len(bins) - j] = r.bin]
                /\ hasInserted' = r.ret
                /\ IF r.ret = 0
                   THEN /\ pc' = "fill_after"
                        /\ j' = j
                   ELSE /\ pc' = "fill_scan"
                        /\ j' = j + 1
       ELSE /\ pc' = "fill_after"
            /\ UNCHANGED <<bins, hasInserted, j>>
    /\ UNCHANGED <<NUMBERS_QUANTITY, BIN_SIZE, input, values, i, num,
                   refused, total, average, divByZero, printed>>

(* FillScan that sets hasInserted only when a bin took the value *)
FillScan_FlagOnSuccess ==
    /\ pc = "fill_scan"
    /\ IF j < Len(bins)
       THEN LET r == insert_number_bin(bins[j + 1], num)
            IN  /\ bins' = [bins EXCEPT ![j + 1] = r.bin]
                /\ hasInserted' = IF r.ret = 0 THEN 0 ELSE hasInserted
                /\ IF r.ret = 0
                   THEN /\ pc' = "fill_after"
                        /\ j' = j
                   ELSE /\ pc' = "fill_scan"
                        /\ j' = j + 1
       ELSE /\ pc' = "fill_after"
            /\ UNCHANGED <<bins, hasInserted, j>>
    /\ UNCHANGED <<NUMBERS_QUANTITY, BIN_SIZE, input, values, i, num,
                   refused, total, average, divByZero, printed>>

(* FillScan that forgets j++ after a refusal *)
FillScan_NoAdvance ==
    /\ pc = "fill_scan"
    /\ IF j < Len(bins)
       THEN LET r == insert_number_bin(bins[j + 1], num)
            IN  /\ bins' = [bins EXCEPT ![j + 1] = r.bin]
                /\ hasInserted' = r.ret
                /\ IF r.ret = 0
                   THEN /\ pc' = "fill_after"
                        /\ j' = j
                   ELSE /\ pc' = "fill_scan"
                        /\ j' = j
       ELSE /\ pc' = "fill_after"
            /\ UNCHANGED <<bins, hasInserted, j>>
    /\ UNCHANGED <<NUMBERS_QUANTITY, BIN_SIZE, input, values, i, num,
                   refused, total, average, divByZero, printed>>

(* fill_bins, inner loop: one test of j < bins->count and, inside, one     *)
(* call of insert_number_bin with the break on success.                    *)
FillScan ==
    /\ pc = "fill_scan"
    /\ IF j < Len(bins)
       THEN LET r == insert_number_bin(bins[j + 1], num)
            IN  /\ bins' = [bins EXCEPT ![j + 1] = r.bin]
                /\ hasInserted' = r.ret
                /\ IF r.ret = 0
                   THEN /\ pc' = "fill_after"
                        /\ j' = j
                   ELSE /\ pc' = "fill_scan"
                        /\ j' = j + 1
       ELSE /\ pc' = "fill_after"
            /\ UNCHANGED <<bins, hasInserted, j>>
    /\ UNCHANGED <<NUMBERS_QUANTITY, BIN_SIZE, input, values, i, num,
                   refused, total, average, divByZero, printed>>

(* fill_bins, after the inner loop: if (hasInserted == 1) { create a bin,  *)
(* insert the number, insert the bin in the list }, then i++.              *)
FillAfter ==
    /\ pc = "fill_after"
    /\ IF hasInserted = 1
       THEN LET b == create_empty_bin
                r == insert_number_bin(b, num)
                l == insert_bin_list(bins, r.bin)
            IN  /\ bins' = l.list
                /\ hasInserted' = l.ret
                /\ refused' = (refused \/ l.ret = 1)
       ELSE UNCHANGED <<bins, hasInserted, refused>>
    /\ i' = i + 1
    /\ pc' = "fill_loop"
    /\ UNCHANGED <<NUMBERS_QUANTITY, BIN_SIZE, input, values, j, num,
                   total, average, divByZero, printed>>

(* print_list_bins: renders left, count and the items of every bin *)
PrintListBins ==
    /\ pc = "print_bins"
    /\ printed' = [k \in 1..Len(bins) |->
                      [index |-> k - 1, left |-> bins[k].left,
                       count |-> bins[k].count, itens |-> bins[k].itens]]
    /\ pc' = "done"
    /\ UNCHANGED <<NUMBERS_QUANTITY, BIN_SIZE, input, values, bins, i, j, num,
                   hasInserted, refused, total, average, divByZero>>

Next ==
    \/ Sort
    \/ PrintNumbers
    \/ FillLoop
    \/ FillScan
    \/ FillAfter
    \/ PrintListBins

Spec == Init /\ [][Next]_vars

----------------------------------------------------------------------------
(* fill_bins as a function of the array it is given: the list of bins it   *)
(* leaves behind.  fill_probe is the inner loop from index jj on, h the    *)
(* value hasInserted has when the loop is entered; fill_value is one       *)
(* iteration of the outer loop.                                            *)

(* the inner loop started at the last bin: for (j = bins->count - 1; ...) *)
fill_probe_LastOnly(list, n, jj, h) ==
    IF Len(list) > 0
    THEN LET r == insert_number_bin(list[Len(list)], n)
         IN  IF r.ret = 0
             THEN [list |-> [list EXCEPT ![Len(list)] = r.bin], h |-> 0]
             ELSE [list |-> list, h |-> r.ret]
    ELSE [list |-> list, h |-> h]

RECURSIVE fill_probe(_, _, _, _)
fill_probe(list, n, jj, h) ==
    IF jj < Len(list)
    THEN LET r == insert_number_bin(list[jj + 1], n)
         IN  IF r.ret = 0
             THEN [list |-> [list EXCEPT ![jj + 1] = r.bin], h |-> 0]
             ELSE fill_probe(list, n, jj + 1, r.ret)
    ELSE [list |-> list, h |-> h]

fill_value(st, n) ==
    LET p == fill_probe(st.list, n, 0, st.h)
    IN  IF p.h = 1
        THEN LET r == insert_number_bin(create_empty_bin, n)
                 l == insert_bin_list(p.list, r.bin)
             IN  [list |-> l.list, h |-> l.ret]
        ELSE p

RECURSIVE fill_from(_, _)
fill_from(st, vals) ==
    IF vals = <<>> THEN st ELSE fill_from(fill_value(st, Head(vals)), Tail(vals))

fill_bins(vals) == fill_from([list |-> create_empty_bin_list, h |-> 1], vals).list

----------------------------------------------------------------------------
(* fill_bins on its own: the state at its entry, for an array of           *)
(* NUMBERS_QUANTITY values in any order; print_numbers has already run.    *)

InitFill(Ns, Bs, Vs) ==
    /\ NUMBERS_QUANTITY \in Ns
    /\ BIN_SIZE \in Bs
    /\ values \in [1..NUMBERS_QUANTITY -> Vs]
    /\ input = values
    /\ bins = create_empty_bin_list
    /\ i = 0
    /\ j = 0
    /\ num = 0
    /\ hasInserted = 1
    /\ refused = FALSE
    /\ total = SumSeq(values) % USHRT
    /\ average = (SumSeq(values) % USHRT) \div NUMBERS_QUANTITY
    /\ divByZero = FALSE
    /\ printed = <<>>
    /\ pc = "fill_loop"

NextFill ==
    \/ FillLoop
    \/ FillScan
    \/ FillAfter
    \/ PrintListBins

(* arrays of up to FFDMaxN values, bins of FFDMinBin..FFDMaxBin *)
FFDMaxN == 6

FFDMaxVal == 3

FFDMinBin == 5

FFDMaxBin == 7

InitFFD == InitFill(1..FFDMaxN, FFDMinBin..FFDMaxBin, 1..FFDMaxVal)

SpecFFD == InitFFD /\ [][NextFill]_vars

(* the example runs of fill_bins: bins of 5 and of 10, values up to 6 *)
ExMaxN == 4

ExMaxVal == 6

ExBinSizes == {5, 10}

InitExample == InitFill(1..ExMaxN, ExBinSizes, 0..ExMaxVal)

SpecExample == InitExample /\ [][NextFill]_vars

(* fill_bins run to its end: the program is sequential and never waits,  *)
(* so a step that can be taken is taken.                                   *)
LiveMaxN == 4

LiveMaxVal == 3

LiveMaxBin == 3

InitLive == InitFill(1..LiveMaxN, 1..LiveMaxBin, 0..LiveMaxVal)

SpecLive == InitLive /\ [][NextFill]_vars /\ WF_vars(NextFill)

(* the whole run with values whose sum does not fit an unsigned short;   *)
(* all values are below 32768, so every int qsort compares is positive    *)
(* and the subtraction in comparison_numbers does not overflow.           *)
AvgMaxN == 3

AvgVals == {0, 1, 30000, 32767}

AvgBinSizes == {50000}

InitAvg ==
    /\ NUMBERS_QUANTITY \in 0..AvgMaxN
    /\ BIN_SIZE \in AvgBinSizes
    /\ input \in [1..NUMBERS_QUANTITY -> AvgVals]
    /\ \E rest \in [1..NUMBERS_QUANTITY -> {0, 30000}] : values = input \o rest
    /\ bins = create_empty_bin_list
    /\ i = 0
    /\ j = 0
    /\ num = 0
    /\ hasInserted = 1
    /\ refused = FALSE
    /\ total = 0
    /\ average = 0
    /\ divByZero = FALSE
    /\ printed = <<>>
    /\ pc = "sort"

SpecAvg == InitAvg /\ [][Next]_vars

----------------------------------------------------------------------------
(* Properties *)

InFill == pc \in {"fill_loop", "fill_scan", "fill_after"}

FillDone == pc \in {"print_bins", "done"}

LastBin == bins[Len(bins)]

(* C1 - Capacity invariant: in every state of fill_bins and in the final   *)
(* state, for any sequence of values (sorted or not), the sum of the       *)
(* values stored in each bin is at most BIN_SIZE.                          *)
C1_Capacity == \A k \in 1..Len(bins) : SumSeq(bins[k].itens) <= BIN_SIZE

(* a bin that took two numbers and is exactly full, with unsorted input *)
C1_Witness ==
    /\ FillDone
    /\ ~IsNonIncreasing(Packed)
    /\ \E k \in 1..Len(bins) :
          Len(bins[k].itens) >= 2 /\ SumSeq(bins[k].itens) = BIN_SIZE

(* C2 - Conservation: after fill_bins has processed the whole array, the   *)
(* multiset union of the values stored in all bins equals the multiset of  *)
(* the values fill_bins was given.                                         *)
C2_Conservation == FillDone => BagOfBins(bins) = BagOfSeq(Packed)

(* C3 - Bin invariant: for every bin, from its creation on,                *)
(* left = BIN_SIZE - (sum of its stored values) and left >= 0.             *)
C3_BinInvariant ==
    \A k \in 1..Len(bins) :
        /\ bins[k].left = BIN_SIZE - SumSeq(bins[k].itens)
        /\ bins[k].left >= 0
        /\ bins[k].count = Len(bins[k].itens)

(* two bins, one of them partly filled by two insertions *)
C3_Witness ==
    /\ InFill
    /\ Len(bins) >= 2
    /\ \E k \in 1..Len(bins) : bins[k].count >= 2 /\ bins[k].left > 0

(* C4 - First-fit order: whenever fill_bins places a value into an         *)
(* existing bin, every bin with a smaller index had left < value at that   *)
(* moment.                                                                 *)
C4_FirstFit ==
    [][\A k \in 1..Len(bins) :
          (pc = "fill_scan" /\ bins'[k] # bins[k])
              => /\ num <= bins[k].left
                 /\ \A m \in 1..(k - 1) : bins[m].left < num]_vars

(* the value went to bin 0 although bin 1 had room for it as well *)
C4_Witness ==
    /\ pc = "fill_after"
    /\ hasInserted = 0
    /\ j = 0
    /\ Len(bins) >= 2
    /\ bins[2].left >= num
    /\ num > 0

C6_EmptyInput ==
    (NUMBERS_QUANTITY = 0)
        => /\ ~divByZero
           /\ pc # "crashed"
           /\ (pc = "done" => Len(bins) = 0)

(* C7 - Decreasing sort: after sort_numbers_array the first                *)
(* NUMBERS_QUANTITY elements of the array are in non-increasing order and  *)
(* are a permutation of the supplied values.                               *)
C7_SortedPermutation ==
    (pc # "sort")
        => /\ IsNonIncreasing(Packed)
           /\ BagOfSeq(Packed) = BagOfSeq(input)

C9_BinsBounded ==
    /\ Len(bins) <= i
    /\ Len(bins) <= NUMBERS_QUANTITY
    /\ ~refused

(* every value needed a bin of its own *)
C9_Witness ==
    /\ pc = "done"
    /\ NUMBERS_QUANTITY >= 2
    /\ Len(bins) = NUMBERS_QUANTITY
    /\ \A k \in 1..Len(bins) : bins[k].count = 1

(* C10 - Monotonic remaining: across every step, a bin's left in the next  *)
(* state is at most its left in the current state.                         *)
C10_MonotonicLeft ==
    [][\A k \in 1..Len(bins) : bins'[k].left <= bins[k].left]_vars

(* a bin whose left went down twice *)
C10_Witness ==
    /\ pc = "fill_after"
    /\ hasInserted = 0
    /\ bins[j + 1].count >= 2
    /\ bins[j + 1].left < BIN_SIZE - num

IsPrefixOf(s, t) == Len(s) <= Len(t) /\ \A k \in 1..Len(s) : t[k] = s[k]

(* C11 - Non-backtracking placement: across every step the bin list only   *)
(* grows at its end and every bin's item sequence only grows at its end;   *)
(* no bin is removed, merged or reordered and a stored value keeps its     *)
(* bin and its position.                                                   *)
C11_NonBacktracking ==
    [][/\ Len(bins') >= Len(bins)
       /\ \A k \in 1..Len(bins) : IsPrefixOf(bins[k].itens, bins'[k].itens)]_vars

(* three values in two bins: the list grew and the first bin grew *)
C11_Witness ==
    /\ FillDone
    /\ Len(bins) = 2
    /\ bins[1].count = 2
    /\ bins[2].count = 1
    /\ bins[2].itens[1] = Packed[2]

(* numeric descending order of a sequence *)
RECURSIVE InsertDescending(_, _)
InsertDescending(x, s) ==
    IF s = <<>> THEN <<x>>
    ELSE IF x >= Head(s) THEN <<x>> \o s
         ELSE <<Head(s)>> \o InsertDescending(x, Tail(s))

RECURSIVE SortDescending(_)
SortDescending(s) ==
    IF s = <<>> THEN <<>> ELSE InsertDescending(Head(s), SortDescending(Tail(s)))

AllFit == \A k \in 1..NUMBERS_QUANTITY : Packed[k] <= BIN_SIZE

(* the steps of fill_bins and the function fill_bins agree *)
FillAgrees == FillDone => bins = fill_bins(Packed)

(* C12, as claimed - FFD benefit: for every multiset of values, each at    *)
(* most BIN_SIZE, and every ordering of it, fill_bins produces on the      *)
(* descending-sorted sequence at most as many bins as on that ordering.    *)
C12_FFDNeverWorse ==
    (FillDone /\ AllFit)
        => Len(fill_bins(SortDescending(Packed))) <= Len(bins)

(* C12, amended - the same for every multiset of at most 5 values.         *)
C12_FFDNeverWorseUpTo5 ==
    (FillDone /\ AllFit /\ NUMBERS_QUANTITY <= 5)
        => Len(fill_bins(SortDescending(Packed))) <= Len(bins)

(* five values in an order on which first-fit needs more bins than on the  *)
(* descending order                                                        *)
C12_Witness ==
    /\ FillDone
    /\ AllFit
    /\ NUMBERS_QUANTITY = 5
    /\ ~IsNonIncreasing(Packed)
    /\ Len(fill_bins(SortDescending(Packed))) < Len(bins)

(* C13 - Example: with BIN_SIZE = 10 and the values 6, 5, 4, 3 packed in   *)
(* that order, fill_bins ends with exactly 2 bins, bin 0 holding 6, 4      *)
(* with left 0 and bin 1 holding 5, 3 with left 2.                         *)
C13_Example ==
    (FillDone /\ BIN_SIZE = 10 /\ Packed = <<6, 5, 4, 3>>)
        => bins = << [itens |-> <<6, 4>>, left |-> 0, count |-> 2],
                     [itens |-> <<5, 3>>, left |-> 2, count |-> 2] >>

(* the example has been packed and printed *)
C13_Witness ==
    /\ pc = "done"
    /\ BIN_SIZE = 10
    /\ Packed = <<6, 5, 4, 3>>
    /\ Len(printed) = 2

(* C14 - Termination: for every array and every BIN_SIZE fill_bins         *)
(* eventually finishes, having taken each value once (i goes up by one     *)
(* per value, up to NUMBERS_QUANTITY) and having probed, for each value,   *)
(* at most the bins that exist at that time, at most NUMBERS_QUANTITY.     *)
C14_Termination ==
    /\ <>(FillDone /\ i = NUMBERS_QUANTITY)
    /\ [](j <= Len(bins) /\ Len(bins) <= NUMBERS_QUANTITY /\ i <= NUMBERS_QUANTITY)
    /\ [][(i' = i /\ (pc = "fill_scan" => (j' = j \/ j' = j + 1)))
            \/ (i' = i + 1 /\ pc = "fill_after")]_vars

(* fill_bins is over after a value was refused by two bins *)
C14_Witness ==
    /\ pc = "done"
    /\ i = NUMBERS_QUANTITY
    /\ j >= 2
    /\ Len(bins) >= 3

(* C15 - New-bin rule: while fill_bins processes a value, a new bin is     *)
(* appended exactly when the value exceeds the left of every bin already   *)
(* in the list (also when the list is empty); the hasInserted left over    *)
(* from the previous value neither creates a bin after an existing bin     *)
(* took the value nor skips the creation when none did.                    *)
(* The inner loop ends with j = bins->count exactly when every bin         *)
(* refused the value, and the list grows by one bin exactly then.          *)
C15_NewBinRule ==
    [][/\ (pc = "fill_scan" /\ pc' = "fill_after")
          => /\ (j' = Len(bins)) <=> (\A k \in 1..Len(bins) : num > bins[k].left)
             /\ (j' < Len(bins)) <=> (bins' # bins)
       /\ (pc = "fill_after")
          => /\ (j = Len(bins)) <=> (Len(bins') = Len(bins) + 1)
             /\ (j < Len(bins)) <=> (bins' = bins)]_vars

(* the previous value went into an existing bin (hasInserted was left at  *)
(* 0) and the current one was refused by every bin and got a new bin       *)
C15_Witness ==
    /\ pc = "fill_loop"
    /\ i >= 3
    /\ Len(bins) >= 2
    /\ bins[1].count >= 2
    /\ bins[1].itens[bins[1].count] = values[i - 1]
    /\ values[i - 1] > 0
    /\ LastBin.itens = <<num>>
    /\ num = values[i]

(* C16 - Reported average: for every non-empty array, the average printed  *)
(* by print_numbers is the integer-truncated quotient of the true sum of   *)
(* the values by their count.                                              *)
C16_AverageOfTrueSum ==
    (pc \notin {"sort", "print_numbers", "crashed"} /\ NUMBERS_QUANTITY > 0)
        => average = SumSeq(Packed) \div NUMBERS_QUANTITY

(* C17 - First-fit packing density: when every value is at most BIN_SIZE,  *)
(* in every state of fill_bins any two distinct bins together hold more    *)
(* than BIN_SIZE; hence at most one bin is at most half full.              *)
C17_Density ==
    AllFit =>
        /\ \A a \in 1..Len(bins) : \A b \in (a + 1)..Len(bins) :
              SumSeq(bins[a].itens) + SumSeq(bins[b].itens) > BIN_SIZE
        /\ Cardinality({k \in 1..Len(bins) : 2 * SumSeq(bins[k].itens) <= BIN_SIZE}) <= 1

(* three bins, one of them at most half full *)
C17_Witness ==
    /\ InFill
    /\ AllFit
    /\ Len(bins) >= 3
    /\ \E k \in 1..Len(bins) : 2 * SumSeq(bins[k].itens) <= BIN_SIZE

====
